---- MODULE Spec2Model ----
(***************************************************************************)
(* The country identity resolution and aggregation engine of               *)
(* scrape_data.py: the three table parsers with their historical-entity    *)
(* filters, normalize_country_names and aggregate_data.                    *)
(*                                                                         *)
(* A Python str is the tuple of its code points, so that lower(), upper(), *)
(* len(), slicing and the `in` substring test are computed, not assumed.   *)
(***************************************************************************)
EXTENDS Integers, Sequences, FiniteSets, TLC

\* ------------------------------------------------------------------ str

\* str.lower() on one code point (ASCII and Latin-1 capitals are 32 below
\* their small letters; 215 is the multiplication sign).
Lower(c) ==
  IF (c >= 65 /\ c <= 90) \/ (c >= 192 /\ c <= 222 /\ c # 215)
  THEN c + 32 ELSE c

\* str.upper() on one code point; the sharp s (223) becomes "SS".
Upper(c) ==
  IF (c >= 97 /\ c <= 122) \/ (c >= 224 /\ c <= 254 /\ c # 247)
  THEN <<c - 32>>
  ELSE IF c = 223 THEN <<83, 83>>
  ELSE IF c = 181 THEN <<924>>
  ELSE IF c = 255 THEN <<376>> ELSE <<c>>

lower(s) == [i \in 1..Len(s) |-> Lower(s[i])]

RECURSIVE upper(_)
upper(s) == IF s = <<>> THEN <<>> ELSE Upper(Head(s)) \o upper(Tail(s))

\* Python's `s in t` on two strings: s is a contiguous part of t.
In(s, t) == \E i \in 0..(Len(t) - Len(s)) : SubSeq(t, i + 1, i + Len(s)) = s

\* s[:n]
Prefix(s, n) == SubSeq(s, 1, IF Len(s) < n THEN Len(s) ELSE n)

\* None, and every other value the tests `if not code` and `a or b` take as
\* false: the empty string.
None == <<>>

Truthy(v) == v # None

\* The set literal of names of defunct states (a duplicate member collapses).
HISTORICAL_COUNTRIES ==
  { <<83,111,118,105,101,116,32,85,110,105,111,110>>  \* "Soviet Union"
  , <<89,117,103,111,115,108,97,118,105,97>>  \* "Yugoslavia"
  , <<69,97,115,116,32,71,101,114,109,97,110,121>>  \* "East Germany"
  , <<67,122,101,99,104,111,115,108,111,118,97,107,105,97>>  \* "Czechoslovakia"
  , <<71,101,114,109,97,110,32,68,101,109,111,99,114,97,116,105,99,32,82,101,112,117,98,108,105,99>>  \* "German Democratic Republic"
  , <<83,111,99,105,97,108,105,115,116,32,70,101,100,101,114,97,108,32,82,101,112,117,98,108,105,99,32,111,102,32,89,117,103,111,115,108,97,118,105,97>>  \* "Socialist Federal Republic of Yugoslavia"
  , <<67,111,109,109,111,110,119,101,97,108,116,104,32,111,102,32,73,110,100,101,112,101,110,100,101,110,116,32,83,116,97,116,101,115>>  \* "Commonwealth of Independent States"
  , <<83,101,114,98,105,97,32,97,110,100,32,77,111,110,116,101,110,101,103,114,111>>  \* "Serbia and Montenegro"
  , <<67,73,83>>  \* "CIS"
  , <<85,110,105,111,110,32,111,102,32,83,111,118,105,101,116,32,83,111,99,105,97,108,105,115,116,32,82,101,112,117,98,108,105,99,115>>  \* "Union of Soviet Socialist Republics"
  }

\* The dict literal, as the sequence of its items in insertion order (a key
\* written twice keeps its first position and its last value).
COUNTRY_CODE_MAP == <<
  [name |-> <<85,110,105,116,101,100,32,83,116,97,116,101,115>>, code |-> <<85,83,65>>],  \* "United States": "USA"
  [name |-> <<85,110,105,116,101,100,32,83,116,97,116,101,115,32,111,102,32,65,109,101,114,105,99,97>>, code |-> <<85,83,65>>],  \* "United States of America": "USA"
  [name |-> <<67,104,105,110,97>>, code |-> <<67,72,78>>],  \* "China": "CHN"
  [name |-> <<80,101,111,112,108,101,39,115,32,82,101,112,117,98,108,105,99,32,111,102,32,67,104,105,110,97>>, code |-> <<67,72,78>>],  \* "People's Republic of China": "CHN"
  [name |-> <<82,117,115,115,105,97>>, code |-> <<82,85,83>>],  \* "Russia": "RUS"
  [name |-> <<83,111,117,116,104,32,75,111,114,101,97>>, code |-> <<75,79,82>>],  \* "South Korea": "KOR"
  [name |-> <<82,101,112,117,98,108,105,99,32,111,102,32,75,111,114,101,97>>, code |-> <<75,79,82>>],  \* "Republic of Korea": "KOR"
  [name |-> <<72,117,110,103,97,114,121>>, code |-> <<72,85,78>>],  \* "Hungary": "HUN"
  [name |-> <<82,111,109,97,110,105,97>>, code |-> <<82,79,85>>],  \* "Romania": "ROU"
  [name |-> <<86,105,101,116,110,97,109>>, code |-> <<86,78,77>>],  \* "Vietnam": "VNM"
  [name |-> <<85,110,105,116,101,100,32,75,105,110,103,100,111,109>>, code |-> <<71,66,82>>],  \* "United Kingdom": "GBR"
  [name |-> <<66,117,108,103,97,114,105,97>>, code |-> <<66,71,82>>],  \* "Bulgaria": "BGR"
  [name |-> <<71,101,114,109,97,110,121>>, code |-> <<68,69,85>>],  \* "Germany": "DEU"
  [name |-> <<73,114,97,110>>, code |-> <<73,82,78>>],  \* "Iran": "IRN"
  [name |-> <<73,115,108,97,109,105,99,32,82,101,112,117,98,108,105,99,32,111,102,32,73,114,97,110>>, code |-> <<73,82,78>>],  \* "Islamic Republic of Iran": "IRN"
  [name |-> <<74,97,112,97,110>>, code |-> <<74,80,78>>],  \* "Japan": "JPN"
  [name |-> <<84,97,105,119,97,110>>, code |-> <<84,87,78>>],  \* "Taiwan": "TWN"
  [name |-> <<85,107,114,97,105,110,101>>, code |-> <<85,75,82>>],  \* "Ukraine": "UKR"
  [name |-> <<67,97,110,97,100,97>>, code |-> <<67,65,78>>],  \* "Canada": "CAN"
  [name |-> <<80,111,108,97,110,100>>, code |-> <<80,79,76>>],  \* "Poland": "POL"
  [name |-> <<84,104,97,105,108,97,110,100>>, code |-> <<84,72,65>>],  \* "Thailand": "THA"
  [name |-> <<65,117,115,116,114,97,108,105,97>>, code |-> <<65,85,83>>],  \* "Australia": "AUS"
  [name |-> <<83,105,110,103,97,112,111,114,101>>, code |-> <<83,71,80>>],  \* "Singapore": "SGP"
  [name |-> <<70,114,97,110,99,101>>, code |-> <<70,82,65>>],  \* "France": "FRA"
  [name |-> <<73,115,114,97,101,108>>, code |-> <<73,83,82>>],  \* "Israel": "ISR"
  [name |-> <<84,117,114,107,101,121>>, code |-> <<84,85,82>>],  \* "Turkey": "TUR"
  [name |-> <<84,195,188,114,107,105,121,101>>, code |-> <<84,85,82>>],  \* "T\xc3\xbcrkiye": "TUR"
  [name |-> <<73,116,97,108,121>>, code |-> <<73,84,65>>],  \* "Italy": "ITA"
  [name |-> <<73,110,100,105,97>>, code |-> <<73,78,68>>],  \* "India": "IND"
  [name |-> <<78,111,114,116,104,32,75,111,114,101,97>>, code |-> <<80,82,75>>],  \* "North Korea": "PRK"
  [name |-> <<68,101,109,111,99,114,97,116,105,99,32,80,101,111,112,108,101,39,115,32,82,101,112,117,98,108,105,99,32,111,102,32,75,111,114,101,97>>, code |-> <<80,82,75>>],  \* "Democratic People's Republic of Korea": "PRK"
  [name |-> <<66,101,108,97,114,117,115>>, code |-> <<66,76,82>>],  \* "Belarus": "BLR"
  [name |-> <<75,97,122,97,107,104,115,116,97,110>>, code |-> <<75,65,90>>],  \* "Kazakhstan": "KAZ"
  [name |-> <<72,111,110,103,32,75,111,110,103>>, code |-> <<72,75,71>>],  \* "Hong Kong": "HKG"
  [name |-> <<83,101,114,98,105,97>>, code |-> <<83,82,66>>],  \* "Serbia": "SRB"
  [name |-> <<66,114,97,122,105,108>>, code |-> <<66,82,65>>],  \* "Brazil": "BRA"
  [name |-> <<65,117,115,116,114,105,97>>, code |-> <<65,85,84>>],  \* "Austria": "AUT"
  [name |-> <<78,101,116,104,101,114,108,97,110,100,115>>, code |-> <<78,76,68>>],  \* "Netherlands": "NLD"
  [name |-> <<77,111,110,103,111,108,105,97>>, code |-> <<77,78,71>>],  \* "Mongolia": "MNG"
  [name |-> <<80,101,114,117>>, code |-> <<80,69,82>>],  \* "Peru": "PER"
  [name |-> <<83,108,111,118,97,107,105,97>>, code |-> <<83,86,75>>],  \* "Slovakia": "SVK"
  [name |-> <<67,122,101,99,104,32,82,101,112,117,98,108,105,99>>, code |-> <<67,90,69>>],  \* "Czech Republic": "CZE"
  [name |-> <<83,119,101,100,101,110>>, code |-> <<83,87,69>>],  \* "Sweden": "SWE"
  [name |-> <<77,101,120,105,99,111>>, code |-> <<77,69,88>>],  \* "Mexico": "MEX"
  [name |-> <<67,114,111,97,116,105,97>>, code |-> <<72,82,86>>],  \* "Croatia": "HRV"
  [name |-> <<73,110,100,111,110,101,115,105,97>>, code |-> <<73,68,78>>],  \* "Indonesia": "IDN"
  [name |-> <<65,114,103,101,110,116,105,110,97>>, code |-> <<65,82,71>>],  \* "Argentina": "ARG"
  [name |-> <<71,101,111,114,103,105,97>>, code |-> <<71,69,79>>],  \* "Georgia": "GEO"
  [name |-> <<77,97,108,97,121,115,105,97>>, code |-> <<77,89,83>>],  \* "Malaysia": "MYS"
  [name |-> <<71,114,101,101,99,101>>, code |-> <<71,82,67>>],  \* "Greece": "GRC"
  [name |-> <<77,111,108,100,111,118,97>>, code |-> <<77,68,65>>],  \* "Moldova": "MDA"
  [name |-> <<80,104,105,108,105,112,112,105,110,101,115>>, code |-> <<80,72,76>>],  \* "Philippines": "PHL"
  [name |-> <<83,119,105,116,122,101,114,108,97,110,100>>, code |-> <<67,72,69>>],  \* "Switzerland": "CHE"
  [name |-> <<66,111,115,110,105,97,32,97,110,100,32,72,101,114,122,101,103,111,118,105,110,97>>, code |-> <<66,73,72>>],  \* "Bosnia and Herzegovina": "BIH"
  [name |-> <<78,111,114,119,97,121>>, code |-> <<78,79,82>>],  \* "Norway": "NOR"
  [name |-> <<78,111,114,116,104,32,77,97,99,101,100,111,110,105,97>>, code |-> <<77,75,68>>],  \* "North Macedonia": "MKD"
  [name |-> <<80,111,114,116,117,103,97,108>>, code |-> <<80,82,84>>],  \* "Portugal": "PRT"
  [name |-> <<66,101,108,103,105,117,109>>, code |-> <<66,69,76>>],  \* "Belgium": "BEL"
  [name |-> <<78,101,119,32,90,101,97,108,97,110,100>>, code |-> <<78,90,76>>],  \* "New Zealand": "NZL"
  [name |-> <<76,105,116,104,117,97,110,105,97>>, code |-> <<76,84,85>>],  \* "Lithuania": "LTU"
  [name |-> <<77,97,99,97,117>>, code |-> <<77,65,67>>],  \* "Macau": "MAC"
  [name |-> <<76,117,120,101,109,98,111,117,114,103>>, code |-> <<76,85,88>>],  \* "Luxembourg": "LUX"
  [name |-> <<65,114,109,101,110,105,97>>, code |-> <<65,82,77>>],  \* "Armenia": "ARM"
  [name |-> <<67,111,108,111,109,98,105,97>>, code |-> <<67,79,76>>],  \* "Colombia": "COL"
  [name |-> <<83,111,117,116,104,32,65,102,114,105,99,97>>, code |-> <<90,65,70>>],  \* "South Africa": "ZAF"
  [name |-> <<70,105,110,108,97,110,100>>, code |-> <<70,73,78>>],  \* "Finland": "FIN"
  [name |-> <<76,97,116,118,105,97>>, code |-> <<76,86,65>>],  \* "Latvia": "LVA"
  [name |-> <<83,108,111,118,101,110,105,97>>, code |-> <<83,86,78>>],  \* "Slovenia": "SVN"
  [name |-> <<66,97,110,103,108,97,100,101,115,104>>, code |-> <<66,71,68>>],  \* "Bangladesh": "BGD"
  [name |-> <<67,117,98,97>>, code |-> <<67,85,66>>],  \* "Cuba": "CUB"
  [name |-> <<68,101,110,109,97,114,107>>, code |-> <<68,78,75>>],  \* "Denmark": "DNK"
  [name |-> <<84,117,110,105,115,105,97>>, code |-> <<84,85,78>>],  \* "Tunisia": "TUN"
  [name |-> <<75,121,114,103,121,122,115,116,97,110>>, code |-> <<75,71,90>>],  \* "Kyrgyzstan": "KGZ"
  [name |-> <<65,108,103,101,114,105,97>>, code |-> <<68,90,65>>],  \* "Algeria": "DZA"
  [name |-> <<85,122,98,101,107,105,115,116,97,110>>, code |-> <<85,90,66>>],  \* "Uzbekistan": "UZB"
  [name |-> <<83,97,117,100,105,32,65,114,97,98,105,97>>, code |-> <<83,65,85>>],  \* "Saudi Arabia": "SAU"
  [name |-> <<69,115,116,111,110,105,97>>, code |-> <<69,83,84>>],  \* "Estonia": "EST"
  [name |-> <<83,112,97,105,110>>, code |-> <<69,83,80>>],  \* "Spain": "ESP"
  [name |-> <<65,122,101,114,98,97,105,106,97,110>>, code |-> <<65,90,69>>],  \* "Azerbaijan": "AZE"
  [name |-> <<84,117,114,107,109,101,110,105,115,116,97,110>>, code |-> <<84,75,77>>],  \* "Turkmenistan": "TKM"
  [name |-> <<67,121,112,114,117,115>>, code |-> <<67,89,80>>],  \* "Cyprus": "CYP"
  [name |-> <<84,97,106,105,107,105,115,116,97,110>>, code |-> <<84,74,75>>],  \* "Tajikistan": "TJK"
  [name |-> <<83,121,114,105,97>>, code |-> <<83,89,82>>],  \* "Syria": "SYR"
  [name |-> <<77,111,114,111,99,99,111>>, code |-> <<77,65,82>>],  \* "Morocco": "MAR"
  [name |-> <<73,114,101,108,97,110,100>>, code |-> <<73,82,76>>],  \* "Ireland": "IRL"
  [name |-> <<67,104,105,108,101>>, code |-> <<67,72,76>>],  \* "Chile": "CHL"
  [name |-> <<77,111,110,116,101,110,101,103,114,111>>, code |-> <<77,78,69>>],  \* "Montenegro": "MNE"
  [name |-> <<65,108,98,97,110,105,97>>, code |-> <<65,76,66>>],  \* "Albania": "ALB"
  [name |-> <<80,97,107,105,115,116,97,110>>, code |-> <<80,65,75>>],  \* "Pakistan": "PAK"
  [name |-> <<84,114,105,110,105,100,97,100,32,97,110,100,32,84,111,98,97,103,111>>, code |-> <<84,84,79>>],  \* "Trinidad and Tobago": "TTO"
  [name |-> <<86,101,110,101,122,117,101,108,97>>, code |-> <<86,69,78>>],  \* "Venezuela": "VEN"
  [name |-> <<67,111,115,116,97,32,82,105,99,97>>, code |-> <<67,82,73>>],  \* "Costa Rica": "CRI"
  [name |-> <<73,99,101,108,97,110,100>>, code |-> <<73,83,76>>],  \* "Iceland": "ISL"
  [name |-> <<80,97,114,97,103,117,97,121>>, code |-> <<80,82,89>>],  \* "Paraguay": "PRY"
  [name |-> <<69,108,32,83,97,108,118,97,100,111,114>>, code |-> <<83,76,86>>],  \* "El Salvador": "SLV"
  [name |-> <<76,105,101,99,104,116,101,110,115,116,101,105,110>>, code |-> <<76,73,69>>],  \* "Liechtenstein": "LIE"
  [name |-> <<73,118,111,114,121,32,67,111,97,115,116>>, code |-> <<67,73,86>>],  \* "Ivory Coast": "CIV"
  [name |-> <<83,114,105,32,76,97,110,107,97>>, code |-> <<76,75,65>>],  \* "Sri Lanka": "LKA"
  [name |-> <<69,99,117,97,100,111,114>>, code |-> <<69,67,85>>],  \* "Ecuador": "ECU"
  [name |-> <<65,102,103,104,97,110,105,115,116,97,110>>, code |-> <<65,70,71>>],  \* "Afghanistan": "AFG"
  [name |-> <<66,97,104,114,97,105,110>>, code |-> <<66,72,82>>],  \* "Bahrain": "BHR"
  [name |-> <<66,101,110,105,110>>, code |-> <<66,69,78>>],  \* "Benin": "BEN"
  [name |-> <<66,111,108,105,118,105,97>>, code |-> <<66,79,76>>],  \* "Bolivia": "BOL"
  [name |-> <<66,111,116,115,119,97,110,97>>, code |-> <<66,87,65>>],  \* "Botswana": "BWA"
  [name |-> <<66,114,117,110,101,105>>, code |-> <<66,82,78>>],  \* "Brunei": "BRN"
  [name |-> <<66,117,114,107,105,110,97,32,70,97,115,111>>, code |-> <<66,70,65>>],  \* "Burkina Faso": "BFA"
  [name |-> <<67,97,109,98,111,100,105,97>>, code |-> <<75,72,77>>],  \* "Cambodia": "KHM"
  [name |-> <<69,103,121,112,116>>, code |-> <<69,71,89>>],  \* "Egypt": "EGY"
  [name |-> <<71,97,109,98,105,97>>, code |-> <<71,77,66>>],  \* "Gambia": "GMB"
  [name |-> <<71,104,97,110,97>>, code |-> <<71,72,65>>],  \* "Ghana": "GHA"
  [name |-> <<71,117,97,116,101,109,97,108,97>>, code |-> <<71,84,77>>],  \* "Guatemala": "GTM"
  [name |-> <<72,111,110,100,117,114,97,115>>, code |-> <<72,78,68>>],  \* "Honduras": "HND"
  [name |-> <<73,114,97,113>>, code |-> <<73,82,81>>],  \* "Iraq": "IRQ"
  [name |-> <<75,101,110,121,97>>, code |-> <<76,75,65>>],  \* "Kenya": "LKA"
  [name |-> <<75,111,115,111,118,111>>, code |-> <<75,83,86>>],  \* "Kosovo": "KSV"
  [name |-> <<75,117,119,97,105,116>>, code |-> <<75,87,84>>],  \* "Kuwait": "KWT"
  [name |-> <<77,97,100,97,103,97,115,99,97,114>>, code |-> <<77,68,71>>],  \* "Madagascar": "MDG"
  [name |-> <<77,97,117,114,105,116,97,110,105,97>>, code |-> <<77,82,84>>],  \* "Mauritania": "MRT"
  [name |-> <<77,111,122,97,109,98,105,113,117,101>>, code |-> <<77,79,90>>],  \* "Mozambique": "MOZ"
  [name |-> <<77,121,97,110,109,97,114>>, code |-> <<77,77,82>>],  \* "Myanmar": "MMR"
  [name |-> <<78,101,112,97,108>>, code |-> <<78,80,76>>],  \* "Nepal": "NPL"
  [name |-> <<78,105,99,97,114,97,103,117,97>>, code |-> <<78,73,67>>],  \* "Nicaragua": "NIC"
  [name |-> <<78,105,103,101,114,105,97>>, code |-> <<78,71,65>>],  \* "Nigeria": "NGA"
  [name |-> <<80,97,110,97,109,97>>, code |-> <<80,65,78>>],  \* "Panama": "PAN"
  [name |-> <<80,117,101,114,116,111,32,82,105,99,111>>, code |-> <<80,82,73>>],  \* "Puerto Rico": "PRI"
  [name |-> <<81,97,116,97,114>>, code |-> <<81,65,84>>],  \* "Qatar": "QAT"
  [name |-> <<83,101,110,101,103,97,108>>, code |-> <<83,69,78>>],  \* "Senegal": "SEN"
  [name |-> <<83,117,114,105,110,97,109,101>>, code |-> <<83,85,82>>],  \* "Suriname": "SUR"
  [name |-> <<84,97,110,122,97,110,105,97>>, code |-> <<84,90,65>>],  \* "Tanzania": "TZA"
  [name |-> <<85,103,97,110,100,97>>, code |-> <<85,71,65>>],  \* "Uganda": "UGA"
  [name |-> <<85,110,105,116,101,100,32,65,114,97,98,32,69,109,105,114,97,116,101,115>>, code |-> <<65,82,69>>],  \* "United Arab Emirates": "ARE"
  [name |-> <<85,114,117,103,117,97,121>>, code |-> <<85,82,89>>],  \* "Uruguay": "URY"
  [name |-> <<90,105,109,98,97,98,119,101>>, code |-> <<90,87,69>>],  \* "Zimbabwe": "ZWE"
  [name |-> <<74,111,114,100,97,110>>, code |-> <<74,79,82>>],  \* "Jordan": "JOR"
  [name |-> <<77,97,108,116,97>>, code |-> <<77,76,84>>],  \* "Malta": "MLT"
  [name |-> <<80,97,108,101,115,116,105,110,101>>, code |-> <<80,83,69>>],  \* "Palestine": "PSE"
  [name |-> <<68,111,109,105,110,105,99,97,110,32,82,101,112,117,98,108,105,99>>, code |-> <<68,79,77>>],  \* "Dominican Republic": "DOM"
  [name |-> <<71,97,98,111,110>>, code |-> <<71,65,66>>],  \* "Gabon": "GAB"
  [name |-> <<76,105,98,121,97>>, code |-> <<76,66,89>>],  \* "Libya": "LBY"
  [name |-> <<77,97,117,114,105,116,105,117,115>>, code |-> <<77,85,83>>],  \* "Mauritius": "MUS"
  [name |-> <<82,119,97,110,100,97>>, code |-> <<82,87,65>>]  \* "Rwanda": "RWA"
  >>
\* ---------------------------------------------------------------- labels

\* The texts the sample table rows are written with.
China == <<67, 104, 105, 110, 97>>  \* "China"
CHINA == <<67, 72, 73, 78, 65>>  \* "CHINA"
MacaoChina == <<77, 97, 99, 97, 111, 44, 32, 67, 104, 105, 110, 97>>  \* "Macao, China"
HongKongChina == <<72, 111, 110, 103, 32, 75, 111, 110, 103, 44, 32, 67, 104, 105, 110, 97>>  \* "Hong Kong, China"
France == <<70, 114, 97, 110, 99, 101>>  \* "France"
Germany == <<71, 101, 114, 109, 97, 110, 121>>  \* "Germany"
Japan == <<74, 97, 112, 97, 110>>  \* "Japan"
Russia == <<82, 117, 115, 115, 105, 97>>  \* "Russia"
SovietUnion == <<83, 111, 118, 105, 101, 116, 32, 85, 110, 105, 111, 110>>  \* "Soviet Union"
soviet_union == <<115, 111, 118, 105, 101, 116, 32, 117, 110, 105, 111, 110>>  \* "soviet union"
SovietUnionNote == <<83, 111, 118, 105, 101, 116, 32, 85, 110, 105, 111, 110, 91, 97, 93>>  \* "Soviet Union[a]"
Note == <<91, 97, 93>>  \* "[a]"
FormerYugoslavia == <<70, 111, 114, 109, 101, 114, 32, 89, 117, 103, 111, 115, 108, 97, 118, 105, 97>>  \* "Former Yugoslavia"
UnitedStates == <<85, 110, 105, 116, 101, 100, 32, 83, 116, 97, 116, 101, 115>>  \* "United States"
RepublicOfKorea == <<82, 101, 112, 117, 98, 108, 105, 99, 32, 111, 102, 32, 75, 111, 114, 101, 97>>  \* "Republic of Korea"
DPRKorea == <<68, 101, 109, 111, 99, 114, 97, 116, 105, 99, 32, 80, 101, 111, 112, 108, 101, 39, 115, 32, 82, 101, 112, 117, 98, 108, 105, 99, 32, 111, 102, 32, 75, 111, 114, 101, 97>>  \* "Democratic People's Republic of Korea"
Korea == <<75, 111, 114, 101, 97>>  \* "Korea"
Xq == <<88, 113>>  \* "Xq"
Atlantis == <<65, 116, 108, 97, 110, 116, 105, 115>>  \* "Atlantis"
Dash == <<45>>  \* "-"
Empty == <<>>  \* ""


\* Codes the properties name.
FRA == <<70, 82, 65>>  \* "FRA"
CHN == <<67, 72, 78>>  \* "CHN"
KOR == <<75, 79, 82>>  \* "KOR"
PRK == <<80, 82, 75>>  \* "PRK"

\* ----------------------------------------------------------------- int

IsDigits(t) == Len(t) > 0 /\ \A i \in 1..Len(t) : t[i] >= 48 /\ t[i] <= 57

\* int(text) succeeds (no ValueError): digits, with an optional sign.
int_ok(t) ==
  \/ IsDigits(t)
  \/ Len(t) > 1 /\ t[1] \in {43, 45} /\ IsDigits(Tail(t))

RECURSIVE digits_value(_)
digits_value(t) ==
  IF t = <<>> THEN 0
  ELSE 10 * digits_value(SubSeq(t, 1, Len(t) - 1)) + (t[Len(t)] - 48)

int(t) ==
  IF t[1] = 45 THEN 0 - digits_value(Tail(t))
  ELSE IF t[1] = 43 THEN digits_value(Tail(t))
  ELSE digits_value(t)

\* The decimal text of a medal count, as a table cell shows it.
RECURSIVE str(_)
str(n) == IF n < 10 THEN <<48 + n>> ELSE str(n \div 10) \o <<48 + (n % 10)>>

\* --------------------------------------------------------------- tables

Sources == {"IMO", "IOI", "IPhO"}

\* One <a> of a country cell.
Link(text, title) == [text |-> text, title |-> title]

\* One <tr> of a medal table: the number of its cells, the links and the
\* text of its country cell, and the texts of its gold, silver and bronze
\* cells.
Row(cells, links, cell_text, gold, silver, bronze) ==
  [cells |-> cells, links |-> links, cell_text |-> cell_text,
   gold |-> gold, silver |-> silver, bronze |-> bronze]

\* A well-formed row whose country cell is one link showing the label.
Plain(label, g, s, b) ==
  Row(8, <<Link(label, label)>>, label, str(g), str(s), str(b))

\* The rows each site can serve, by feed.
Feeds == {"collision", "historical", "partial", "resolver"}

Rows(f, s) ==
  IF f = "collision" THEN
    IF s = "IMO" THEN
      {Plain(China, 5, 3, 1), Plain(MacaoChina, 2, 1, 0), Plain(CHINA, 1, 1, 1)}
    ELSE IF s = "IOI" THEN
      {Plain(MacaoChina, 0, 2, 0), Plain(China, 4, 0, 0), Plain(China, 0, 0, 7)}
    ELSE
      {Plain(CHINA, 1, 0, 0), Plain(HongKongChina, 0, 1, 0), Plain(China, 2, 2, 2)}
  ELSE IF f = "historical" THEN
    IF s = "IMO" THEN
      {Plain(SovietUnion, 7, 0, 0),
       Row(6, <<Link(SovietUnion, SovietUnion), Link(Note, Empty)>>,
           SovietUnionNote, str(1), str(2), str(3)),
       Plain(FormerYugoslavia, 0, 5, 0),
       Plain(Russia, 1, 0, 0)}
    ELSE IF s = "IOI" THEN
      {Plain(SovietUnion, 7, 0, 0), Plain(soviet_union, 0, 3, 0),
       Plain(Russia, 0, 1, 0)}
    ELSE
      {Plain(SovietUnion, 7, 0, 0), Plain(FormerYugoslavia, 0, 0, 2),
       Plain(Russia, 0, 0, 1)}
  ELSE IF f = "partial" THEN
    IF s = "IMO" THEN
      {Plain(France, 10, 5, 2), Plain(Germany, 3, 1, 0),
       Row(6, <<>>, Japan, str(4), Dash, str(1))}
    ELSE IF s = "IOI" THEN
      {Plain(France, 3, 1, 0), Plain(Japan, 10, 5, 2),
       Row(5, <<>>, Germany, str(1), str(1), str(1))}
    ELSE
      {Plain(France, 1, 0, 2), Plain(Germany, 2, 2, 0),
       Row(6, <<Link(Japan, Japan)>>, Japan, str(1), str(1), str(1))}
  ELSE
    IF s = "IMO" THEN
      {Plain(UnitedStates, 1, 0, 0), Plain(RepublicOfKorea, 0, 1, 0),
       Plain(Xq, 0, 0, 1)}
    ELSE IF s = "IOI" THEN
      {Plain(DPRKorea, 1, 0, 0), Plain(Korea, 0, 1, 0), Plain(Xq, 0, 0, 1)}
    ELSE
      {Plain(HongKongChina, 1, 0, 0), Plain(Atlantis, 0, 1, 0),
       Row(8, <<>>, Empty, str(0), str(0), str(1))}

\* ---------------------------------------------------------------- dicts

\* A dict is the sequence of its items, [key, value], in insertion order.
Keys(d) == {d[i].key : i \in 1..Len(d)}

Get(d, k) == d[CHOOSE i \in 1..Len(d) : d[i].key = k].value

\* d[k] = v: a present key keeps its place, a new key goes last.
Put(d, k, v) ==
  IF k \in Keys(d)
  THEN [i \in 1..Len(d) |-> IF d[i].key = k THEN [key |-> k, value |-> v] ELSE d[i]]
  ELSE Append(d, [key |-> k, value |-> v])

Medals(g, s, b, t) == [gold |-> g, silver |-> s, bronze |-> b, total |-> t]

\* -------------------------------------------------------------- parsers

\* The try block shared by the three parsers: the tally of the row under
\* its label, or the dict unchanged when a cell is not an integer.
store_row(d, country_name, row) ==
  IF int_ok(row.gold) /\ int_ok(row.silver) /\ int_ok(row.bronze)
  THEN LET gold == int(row.gold)
           silver == int(row.silver)
           bronze == int(row.bronze)
       IN Put(d, country_name, Medals(gold, silver, bronze, gold + silver + bronze))
  ELSE d

\* The link loop of parse_imo_data: the text of the last link that is
\* longer than one character and equals its title or has no title; "" when
\* links exist and none qualifies; the cell text when there is no link.
RECURSIVE imo_link_name(_, _)
imo_link_name(links, country_name) ==
  IF links = <<>> THEN country_name
  ELSE LET link == Head(links) IN
       imo_link_name(Tail(links),
         IF Truthy(link.text) /\ Len(link.text) > 1
            /\ (link.text = link.title \/ ~Truthy(link.title))
         THEN link.text ELSE country_name)

imo_country_name(row) ==
  IF row.links # <<>> THEN imo_link_name(row.links, <<>>) ELSE row.cell_text

\* The historical names found in the cell text, whatever the letter case.
imo_historical(cell_text) ==
  {h \in HISTORICAL_COUNTRIES : In(lower(h), lower(cell_text))}

\* One iteration of the row loop of parse_imo_data.
parse_imo_row(d, row) ==
  IF row.cells < 6 THEN d
  ELSE IF Len(imo_country_name(row)) <= 2 THEN d
  ELSE IF imo_historical(row.cell_text) # {} THEN d
  ELSE store_row(d, imo_country_name(row), row)

\* The country name of parse_ioi_data and parse_ipho_data: the first link's
\* text, or the cell text.
link_country_name(row) ==
  IF row.links # <<>> THEN row.links[1].text ELSE row.cell_text

\* parse_ioi_row without its test for historical names.
parse_ioi_row_unfiltered(d, row) ==
  IF row.cells < 6 THEN d
  ELSE store_row(d, link_country_name(row), row)

\* One iteration of the row loop of parse_ioi_data.
parse_ioi_row(d, row) ==
  IF row.cells < 6 THEN d
  ELSE IF link_country_name(row) \in HISTORICAL_COUNTRIES THEN d
  ELSE store_row(d, link_country_name(row), row)

\* One iteration of the row loop of parse_ipho_data; bronze is cells[6],
\* an IndexError on a row of six cells.
parse_ipho_row(d, row) ==
  IF row.cells < 6 THEN d
  ELSE IF link_country_name(row) \in HISTORICAL_COUNTRIES THEN d
  ELSE IF row.cells < 7 THEN d
  ELSE store_row(d, link_country_name(row), row)

parse_row(s, d, row) ==
  IF s = "IMO" THEN parse_imo_row(d, row)
  ELSE IF s = "IOI" THEN parse_ioi_row(d, row)
  ELSE parse_ipho_row(d, row)

\* The country name a parser takes from a row.
row_country_name(s, row) ==
  IF s = "IMO" THEN imo_country_name(row) ELSE link_country_name(row)

\* The whole row loop of the parser of s over a table.
RECURSIVE parse_table(_, _)
parse_table(s, rows) ==
  IF rows = <<>> THEN <<>>
  ELSE parse_row(s, parse_table(s, SubSeq(rows, 1, Len(rows) - 1)), rows[Len(rows)])

\* ------------------------------------------------------------- resolver

\* COUNTRY_CODE_MAP.get(country_name)
exact_match(items, country_name) ==
  IF \E i \in 1..Len(items) : items[i].name = country_name
  THEN items[CHOOSE i \in 1..Len(items) : items[i].name = country_name].code
  ELSE None

\* The test of the partial-match loop on one entry: its name is in the
\* label or holds the label, both in lower case.
partial(name, country_name) ==
  \/ In(lower(name), lower(country_name))
  \/ In(lower(country_name), lower(name))

\* partial_match with the last passing entry winning, not the first.
RECURSIVE partial_match_last(_, _, _, _)
partial_match_last(items, country_name, lo, hi) ==
  IF lo > hi THEN None
  ELSE IF lo = hi
       THEN IF partial(items[lo].name, country_name) THEN items[lo].code ELSE None
       ELSE LET mid == (lo + hi) \div 2
                back == partial_match_last(items, country_name, mid + 1, hi)
            IN IF Truthy(back) THEN back
               ELSE partial_match_last(items, country_name, lo, mid)

\* The partial-match loop over the entries lo..hi: the code of the first
\* one that passes the test, where the loop breaks, or None. The range is
\* walked front half first, so that the walk nests only as deep as the
\* halvings of the dictionary.
RECURSIVE partial_match(_, _, _, _)
partial_match(items, country_name, lo, hi) ==
  IF lo > hi THEN None
  ELSE IF lo = hi
       THEN IF partial(items[lo].name, country_name) THEN items[lo].code ELSE None
       ELSE LET mid == (lo + hi) \div 2
                front == partial_match(items, country_name, lo, mid)
            IN IF Truthy(front) THEN front
               ELSE partial_match(items, country_name, mid + 1, hi)

\* resolve without the exact lookup ahead of the partial-match loop.
resolve_partial_first(items, country_name) ==
  LET found == partial_match(items, country_name, 1, Len(items))
  IN IF ~Truthy(found) THEN upper(Prefix(country_name, 3)) ELSE found

\* The code normalize_country_names gives a label, over the dictionary
\* items in the given order.
resolve(items, country_name) ==
  LET exact == exact_match(items, country_name)
      found == IF ~Truthy(exact) THEN partial_match(items, country_name, 1, Len(items))
               ELSE exact
  IN IF ~Truthy(found) THEN upper(Prefix(country_name, 3)) ELSE found

\* The orders the dictionary items may be written in: the insertion order
\* turned left by shift places, then read backwards when reversed.
Orders == [shift : 0..(Len(COUNTRY_CODE_MAP) - 1), reversed : BOOLEAN]

InsertionOrder == [shift |-> 0, reversed |-> FALSE]

Items(o) ==
  LET n == Len(COUNTRY_CODE_MAP)
      turned == [i \in 1..n |-> COUNTRY_CODE_MAP[((i - 1 + o.shift) % n) + 1]]
  IN IF o.reversed THEN [i \in 1..n |-> turned[n + 1 - i]] ELSE turned

\* keep_shorter without the test: the last label of a code replaces the name.
keep_last(norm, c, country_name, medals) ==
  Put(norm, c, [name |-> country_name, medals |-> medals])

\* keep_shorter with > for >=: a label as long as the name replaces it.
keep_shorter_strict(norm, c, country_name, medals) ==
  IF c \in Keys(norm) /\ Len(country_name) > Len(Get(norm, c).name)
  THEN norm
  ELSE Put(norm, c, [name |-> country_name, medals |-> medals])

\* The rest of a loop body of normalize_country_names: the entry of the
\* code is written unless it exists under a name no longer than the label.
keep_shorter(norm, c, country_name, medals) ==
  IF c \in Keys(norm) /\ Len(country_name) >= Len(Get(norm, c).name)
  THEN norm
  ELSE Put(norm, c, [name |-> country_name, medals |-> medals])

\* ----------------------------------------------------------- aggregator

ZeroMedals == Medals(0, 0, 0, 0)

\* normalized.get(code, {}).get("name")
info_name(norm, c) == IF c \in Keys(norm) THEN Get(norm, c).name ELSE None

\* normalized.get(code, {}).get("medals", zeros)
info_medals(norm, c) == IF c \in Keys(norm) THEN Get(norm, c).medals ELSE ZeroMedals

\* a or b
Or(a, b) == IF Truthy(a) THEN a ELSE b

\* country_record with the IPhO total left out of the combined total.
country_record_two(norm, c) ==
  LET imo_medals == info_medals(norm["IMO"], c)
      ioi_medals == info_medals(norm["IOI"], c)
      ipho_medals == info_medals(norm["IPhO"], c)
  IN [code |-> c,
      name |-> Or(info_name(norm["IMO"], c),
                  Or(info_name(norm["IOI"], c), info_name(norm["IPhO"], c))),
      medals |->
        [IMO |-> imo_medals, IOI |-> ioi_medals, IPhO |-> ipho_medals,
         combined |->
           Medals(imo_medals.gold + ioi_medals.gold + ipho_medals.gold,
                  imo_medals.silver + ioi_medals.silver + ipho_medals.silver,
                  imo_medals.bronze + ioi_medals.bronze + ipho_medals.bronze,
                  imo_medals.total + ioi_medals.total)]]

\* country_record with the IPhO tally looked up in the IOI map.
country_record_copied(norm, c) ==
  LET imo_medals == info_medals(norm["IMO"], c)
      ioi_medals == info_medals(norm["IOI"], c)
      ipho_medals == info_medals(norm["IOI"], c)
  IN [code |-> c,
      name |-> Or(info_name(norm["IMO"], c),
                  Or(info_name(norm["IOI"], c), info_name(norm["IPhO"], c))),
      medals |->
        [IMO |-> imo_medals, IOI |-> ioi_medals, IPhO |-> ipho_medals,
         combined |->
           Medals(imo_medals.gold + ioi_medals.gold + ipho_medals.gold,
                  imo_medals.silver + ioi_medals.silver + ipho_medals.silver,
                  imo_medals.bronze + ioi_medals.bronze + ipho_medals.bronze,
                  imo_medals.total + ioi_medals.total + ipho_medals.total)]]

\* The record the aggregation loop appends for one code.
country_record(norm, c) ==
  LET imo_medals == info_medals(norm["IMO"], c)
      ioi_medals == info_medals(norm["IOI"], c)
      ipho_medals == info_medals(norm["IPhO"], c)
  IN [code |-> c,
      name |-> Or(info_name(norm["IMO"], c),
                  Or(info_name(norm["IOI"], c), info_name(norm["IPhO"], c))),
      medals |->
        [IMO |-> imo_medals, IOI |-> ioi_medals, IPhO |-> ipho_medals,
         combined |->
           Medals(imo_medals.gold + ioi_medals.gold + ipho_medals.gold,
                  imo_medals.silver + ioi_medals.silver + ipho_medals.silver,
                  imo_medals.bronze + ioi_medals.bronze + ipho_medals.bronze,
                  imo_medals.total + ioi_medals.total + ipho_medals.total)]]

sort_key(x) == x.medals.combined.total

\* insert_desc without reverse=True: ascending key order.
insert_asc(sorted, x) ==
  LET before == {i \in 1..Len(sorted) : sort_key(sorted[i]) <= sort_key(x)}
      n == Cardinality(before)
  IN SubSeq(sorted, 1, n) \o <<x>> \o SubSeq(sorted, n + 1, Len(sorted))

\* x put into a list in descending key order, after its equals.
insert_desc(sorted, x) ==
  LET before == {i \in 1..Len(sorted) : sort_key(sorted[i]) >= sort_key(x)}
      n == Cardinality(before)
  IN SubSeq(sorted, 1, n) \o <<x>> \o SubSeq(sorted, n + 1, Len(sorted))

\* union_codes without the keys of the IPhO map.
union_codes_two(norm) == Keys(norm["IMO"]) \cup Keys(norm["IOI"])

\* The keys of the three normalized maps together.
union_codes(norm) == Keys(norm["IMO"]) \cup Keys(norm["IOI"]) \cup Keys(norm["IPhO"])

\* list.sort(key=combined total, reverse=True): stable, descending.
RECURSIVE sort_desc(_)
sort_desc(list) ==
  IF list = <<>> THEN <<>>
  ELSE insert_desc(sort_desc(SubSeq(list, 1, Len(list) - 1)), list[Len(list)])

\* -------------------------------------------------------------- machine

\* The table rows read over the three sites in one run.
MaxRows == 3

VARIABLES
  feed,          \* which rows the three sites serve
  order,         \* the order of the dictionary items
  pc,            \* "parse", "normalize", "aggregate", "done"; "resolve", "resolved"
  src,           \* the source being parsed or normalized
  table,         \* per source, the rows read so far
  data,          \* per source, the dict its parser builds
  idx,           \* the next item of data[src] in normalize_country_names
  country_name,  \* the loop variables of normalize_country_names
  code,
  normalized,    \* per source, the dict normalize_country_names builds
  all_codes,     \* the code set of aggregate_data
  result         \* the list of aggregate_data

vars == <<feed, order, pc, src, table, data, idx, country_name, code,
          normalized, all_codes, result>>

Start ==
  /\ src = "IMO"
  /\ table = [s \in Sources |-> <<>>]
  /\ data = [s \in Sources |-> <<>>]
  /\ idx = 1
  /\ country_name = None
  /\ code = None
  /\ normalized = [s \in Sources |-> <<>>]
  /\ all_codes = {}
  /\ result = <<>>

\* main() is entered; the sites serve one of the feeds.
Init ==
  /\ feed \in Feeds
  /\ order = InsertionOrder
  /\ pc = "parse"
  /\ Start

\* main() and aggregate_data call the sources in this order.
Following(s) == IF s = "IMO" THEN "IOI" ELSE "IPhO"

RowsRead == Len(table["IMO"]) + Len(table["IOI"]) + Len(table["IPhO"])

\* One iteration of the row loop of the parser of src.
ParseRow ==
  /\ pc = "parse"
  /\ RowsRead < MaxRows
  /\ \E row \in Rows(feed, src) :
       /\ table' = [table EXCEPT ![src] = Append(@, row)]
       /\ data' = [data EXCEPT ![src] = parse_row(src, @, row)]
  /\ UNCHANGED <<feed, order, pc, src, idx, country_name, code, normalized,
                 all_codes, result>>

\* The parser of src returns; after the third, main() calls aggregate_data,
\* which calls normalize_country_names on the first dict.
ParseReturn ==
  /\ pc = "parse"
  /\ IF src = "IPhO"
     THEN pc' = "normalize" /\ src' = "IMO"
     ELSE pc' = pc /\ src' = Following(src)
  /\ UNCHANGED <<feed, order, table, data, idx, country_name, code,
                 normalized, all_codes, result>>

\* One iteration of the loop of normalize_country_names.
NormalizeRecord ==
  /\ pc = "normalize"
  /\ idx <= Len(data[src])
  /\ LET item == data[src][idx]
         c == resolve(Items(order), item.key)
     IN /\ country_name' = item.key
        /\ code' = c
        /\ normalized' =
             [normalized EXCEPT ![src] = keep_shorter(@, c, item.key, item.value)]
  /\ idx' = idx + 1
  /\ UNCHANGED <<feed, order, pc, src, table, data, all_codes, result>>

\* normalize_country_names returns; after the third call aggregate_data
\* builds the code set.
NormalizeReturn ==
  /\ pc = "normalize"
  /\ idx > Len(data[src])
  /\ idx' = 1
  /\ country_name' = None
  /\ code' = None
  /\ IF src = "IPhO"
     THEN pc' = "aggregate" /\ src' = src /\ all_codes' = union_codes(normalized)
     ELSE pc' = pc /\ src' = Following(src) /\ all_codes' = all_codes
  /\ UNCHANGED <<feed, order, table, data, normalized, result>>

Done(codes, list) == {list[i].code : i \in 1..Len(list)} = codes

\* One iteration of the loop over all_codes, a set: in any order.
AggregateCode ==
  /\ pc = "aggregate"
  /\ \E c \in all_codes \ {result[i].code : i \in 1..Len(result)} :
       result' = Append(result, country_record(normalized, c))
  /\ UNCHANGED <<feed, order, pc, src, table, data, idx, country_name, code,
                 normalized, all_codes>>

\* The loop is over: the list is sorted and returned.
AggregateReturn ==
  /\ pc = "aggregate"
  /\ Done(all_codes, result)
  /\ result' = sort_desc(result)
  /\ pc' = "done"
  /\ UNCHANGED <<feed, order, src, table, data, idx, country_name, code,
                 normalized, all_codes>>

Next ==
  \/ ParseRow
  \/ ParseReturn
  \/ NormalizeRecord
  \/ NormalizeReturn
  \/ AggregateCode
  \/ AggregateReturn

Spec == Init /\ [][Next]_vars

\* ------------------------------------------------- the resolver alone

\* The labels the resolver is applied to on its own: every dictionary
\* name, and labels that are none.
ResolveLabels ==
  {COUNTRY_CODE_MAP[i].name : i \in 1..Len(COUNTRY_CODE_MAP)}
    \cup {Korea, HongKongChina, MacaoChina, CHINA, Xq, Atlantis}

InitResolve ==
  /\ feed = "resolver"
  /\ order \in Orders
  /\ pc = "resolve"
  /\ Start

\* The resolution steps of one loop body, on a label, with the dictionary
\* items in the order chosen.
Resolve ==
  /\ pc = "resolve"
  /\ \E label \in ResolveLabels :
       /\ country_name' = label
       /\ code' = resolve(Items(order), label)
  /\ pc' = "resolved"
  /\ UNCHANGED <<feed, order, src, table, data, idx, normalized, all_codes,
                 result>>

NextResolve == Resolve

SpecResolve == InitResolve /\ [][NextResolve]_vars

\* ----------------------------------------------------------- properties

\* normalize_country_names has processed every record of source s and is
\* about to return its map.
Normalized(s) == pc = "normalize" /\ s = src /\ idx > Len(data[s])

\* The codes the labels of data[s] resolve to: pairs of position and code.
CodesOf(s) ==
  {<<i, resolve(Items(order), data[s][i].key)>> : i \in 1..Len(data[s])}

\* The positions of the labels that resolve to code c.
LabelsOf(codes, c) == {p[1] : p \in {q \in codes : q[2] = c}}

\* Among the labels of data[s] at these positions the shortest, and of
\* equally short ones the first.
Winner(s, at) ==
  CHOOSE i \in at :
    \A j \in at :
      \/ Len(data[s][i].key) < Len(data[s][j].key)
      \/ Len(data[s][i].key) = Len(data[s][j].key) /\ i <= j

DictNames == {COUNTRY_CODE_MAP[i].name : i \in 1..Len(COUNTRY_CODE_MAP)}

ResultCodes == {result[i].code : i \in 1..Len(result)}

NormalizedCodes == UNION {Keys(normalized[s]) : s \in Sources}

\* C1: once every record of a source is processed, a code that two or more
\* of its labels resolve to carries the shortest of those labels as its
\* name (of equally short ones the first seen), and as its medals the tally
\* of that label alone.
C1_ShortestLabelWins ==
  \A s \in Sources :
    Normalized(s) =>
      LET codes == CodesOf(s) IN
      \A c \in Keys(normalized[s]) :
        LET at == LabelsOf(codes, c) IN
        Cardinality(at) >= 2 =>
          /\ Get(normalized[s], c).name = data[s][Winner(s, at)].key
          /\ Get(normalized[s], c).medals = data[s][Winner(s, at)].value

\* Three labels of one source share a code, the winner came second, and a
\* label as short as it came third with another tally.
C1_Witness ==
  \E s \in Sources :
    /\ Normalized(s)
    /\ Len(data[s]) = 3
    /\ \E c \in Keys(normalized[s]) :
         LET at == LabelsOf(CodesOf(s), c) IN
         /\ Cardinality(at) = 3
         /\ Winner(s, at) = 2
         /\ Len(data[s][3].key) = Len(data[s][2].key)
         /\ data[s][3].value # data[s][2].value
         /\ Get(normalized[s], c).medals = data[s][2].value

\* Every tally of the three parsed dicts has non-negative counts and a
\* total that is their sum.
ValidInputs ==
  \A s \in Sources : \A i \in 1..Len(data[s]) :
    LET m == data[s][i].value IN
    /\ m.gold >= 0 /\ m.silver >= 0 /\ m.bronze >= 0
    /\ m.total = m.gold + m.silver + m.bronze

\* C2: on valid inputs every record of the result has a combined total equal
\* to the sum of its IMO, IOI and IPhO totals, and each of these equals that
\* source's gold + silver + bronze.
C2_TotalsAddUp ==
  ValidInputs =>
    \A i \in 1..Len(result) :
      LET m == result[i].medals IN
      /\ m.combined.total = m.IMO.total + m.IOI.total + m.IPhO.total
      /\ \A s \in Sources : m[s].total = m[s].gold + m[s].silver + m[s].bronze

\* A returned record with medals in all three sources.
C2_Witness ==
  /\ pc = "done"
  /\ ValidInputs
  /\ \E i \in 1..Len(result) : \A s \in Sources : result[i].medals[s].total > 0

\* C3: the returned list holds each code at most once, and its codes are
\* exactly the keys of the three normalized maps together.
C3_CodesAreTheUnion ==
  pc = "done" =>
    /\ Cardinality(ResultCodes) = Len(result)
    /\ ResultCodes = NormalizedCodes

\* Two or more countries are returned, one of them known to IPhO alone.
C3_Witness ==
  /\ pc = "done"
  /\ Len(result) >= 2
  /\ \E c \in Keys(normalized["IPhO"]) :
       c \notin Keys(normalized["IMO"]) \cup Keys(normalized["IOI"])

\* The rows of a table whose country name is no member of the Historical Set.
NotHistorical(s, rows) ==
  LET Test(row) == row_country_name(s, row) \notin HISTORICAL_COUNTRIES
  IN SelectSeq(rows, Test)

\* C4: in each of the three sources a row whose label is a member of the
\* Historical Set is dropped: the parsed dict is the one the table gives
\* without such rows, and no entry of a normalized map and no record of the
\* result is under such a name.
C4_HistoricalRowsDropped ==
  \A s \in Sources :
    /\ data[s] = parse_table(s, NotHistorical(s, table[s]))
    /\ \A c \in Keys(normalized[s]) :
         Get(normalized[s], c).name \notin HISTORICAL_COUNTRIES
    /\ \A i \in 1..Len(result) : result[i].name \notin HISTORICAL_COUNTRIES

\* Every source has served a "Soviet Union" row with seven gold medals, and
\* the result is returned empty.
C4_Witness ==
  /\ pc = "done"
  /\ \A s \in Sources :
       \E i \in 1..Len(table[s]) :
         /\ row_country_name(s, table[s][i]) = SovietUnion
         /\ int(table[s][i].gold) = 7
  /\ result = <<>>

\* The rows of a table whose country name and cell text hold no name of the
\* Historical Set, in any letter case.
HoldsNoHistorical(s, rows) ==
  LET Test(row) ==
        /\ imo_historical(row_country_name(s, row)) = {}
        /\ imo_historical(row.cell_text) = {}
  IN SelectSeq(rows, Test)

\* C5: in each of the three sources a row whose label or cell text holds a
\* name of the Historical Set, in any letter case, is discarded: the parsed
\* dict is the one the table gives without such rows.
C5_HistoricalMatchedBySubstring ==
  \A s \in Sources : data[s] = parse_table(s, HoldsNoHistorical(s, table[s]))

\* C6: a label that is a key of the dictionary resolves to that key's own
\* code, whatever the order of the dictionary items.
C6_ExactNameResolves ==
  (pc = "resolved" /\ country_name \in DictNames) =>
    \E i \in 1..Len(COUNTRY_CODE_MAP) :
      /\ COUNTRY_CODE_MAP[i].name = country_name
      /\ COUNTRY_CODE_MAP[i].code = code

\* "Republic of Korea" is resolved while the entry of a name that contains
\* it, of another code, comes first.
C6_Witness ==
  /\ pc = "resolved"
  /\ country_name = RepublicOfKorea
  /\ code = KOR
  /\ \E i, j \in 1..Len(COUNTRY_CODE_MAP) :
       /\ i < j
       /\ Items(order)[i].name = DPRKorea
       /\ Items(order)[j].name = RepublicOfKorea

\* The record of code c in the result, when there is exactly one.
RecordOf(c) == result[CHOOSE i \in 1..Len(result) : result[i].code = c]

\* C7: every code of a normalized map is returned exactly once; its tally
\* for a source is that source's normalized tally, all-zero when the source
\* did not produce the code, and combined is the sum field by field. IMO
\* [("France",10,5,2)], IOI [("France",3,1,0)] and IPhO [] return the one
\* record FRA with totals 17, 4, 0 and 21.
C7_AbsentSourcesAreZero ==
  pc = "done" =>
    /\ \A c \in NormalizedCodes :
         /\ Cardinality({i \in 1..Len(result) : result[i].code = c}) = 1
         /\ \A s \in Sources :
              RecordOf(c).medals[s] =
                IF c \in Keys(normalized[s]) THEN Get(normalized[s], c).medals
                ELSE Medals(0, 0, 0, 0)
         /\ LET m == RecordOf(c).medals IN
            /\ m.combined.gold = m.IMO.gold + m.IOI.gold + m.IPhO.gold
            /\ m.combined.silver = m.IMO.silver + m.IOI.silver + m.IPhO.silver
            /\ m.combined.bronze = m.IMO.bronze + m.IOI.bronze + m.IPhO.bronze
            /\ m.combined.total = m.IMO.total + m.IOI.total + m.IPhO.total
    /\ ( /\ data["IMO"] = <<[key |-> France, value |-> Medals(10, 5, 2, 17)]>>
         /\ data["IOI"] = <<[key |-> France, value |-> Medals(3, 1, 0, 4)]>>
         /\ data["IPhO"] = <<>> )
       => /\ Len(result) = 1
          /\ result[1].code = FRA
          /\ result[1].medals.IMO.total = 17
          /\ result[1].medals.IOI.total = 4
          /\ result[1].medals.IPhO.total = 0
          /\ result[1].medals.combined.total = 21

\* The France scenario is returned; its IPhO tally is the default.
C7_Witness ==
  /\ pc = "done"
  /\ data["IMO"] = <<[key |-> France, value |-> Medals(10, 5, 2, 17)]>>
  /\ data["IOI"] = <<[key |-> France, value |-> Medals(3, 1, 0, 4)]>>
  /\ data["IPhO"] = <<>>
  /\ Len(result) = 1
  /\ result[1].medals.IPhO = Medals(0, 0, 0, 0)

\* C8: in the returned list every record's combined total is at least the
\* next record's.
C8_SortedByCombinedTotal ==
  pc = "done" =>
    \A i \in 1..(Len(result) - 1) :
      result[i].medals.combined.total >= result[i + 1].medals.combined.total

\* Three countries are returned, with a tie and a strictly smaller total.
C8_Witness ==
  /\ pc = "done"
  /\ Len(result) = 3
  /\ result[1].medals.combined.total = result[2].medals.combined.total
  /\ result[2].medals.combined.total > result[3].medals.combined.total

\* C9: every code the resolver produces has three characters, the
\* pseudo-code of a label of one or two characters included: the code of
\* the loop body, every key of a normalized map and every code of the
\* result.
C9_CodesHaveThreeCharacters ==
  /\ (pc = "normalize" /\ idx > 1) => Len(code) = 3
  /\ \A c \in NormalizedCodes : Len(c) = 3
  /\ \A c \in ResultCodes : Len(c) = 3

\* The dictionary entries, in insertion order, that pass the partial-match
\* test on a label.
Matching(label) ==
  {i \in 1..Len(COUNTRY_CODE_MAP) : partial(COUNTRY_CODE_MAP[i].name, label)}

\* C10: a label that is no dictionary key gets the code of the earliest
\* entry, in insertion order, whose name it contains or is contained in,
\* compared in lower case; the pseudo-code only when no entry matches.
C10_EarliestEntryWins ==
  (pc = "normalize" /\ idx > 1 /\ country_name \notin DictNames) =>
    IF Matching(country_name) = {}
    THEN code = upper(Prefix(country_name, 3))
    ELSE \E i \in Matching(country_name) :
           /\ \A j \in Matching(country_name) : i <= j
           /\ code = COUNTRY_CODE_MAP[i].code

\* "Hong Kong, China" is resolved: entries of two codes match it and the
\* earlier one, "China", gives the code.
C10_Witness ==
  /\ pc = "normalize"
  /\ idx > 1
  /\ country_name = HongKongChina
  /\ code = CHN
  /\ \E i, j \in Matching(country_name) :
       COUNTRY_CODE_MAP[i].code # COUNTRY_CODE_MAP[j].code

\* C11, as stated: within one normalization, once the entry of a code is
\* created no later record changes its name.
C11_NameNeverChanges ==
  [][\A s \in Sources : \A c \in Keys(normalized[s]) :
       /\ c \in Keys(normalized'[s])
       /\ Get(normalized'[s], c).name = Get(normalized[s], c).name]_vars

\* C11, amended: an entry is never removed, and a step changes its name only
\* to the label of the record being processed, strictly shorter than the
\* name it replaces, together with that record's tally.
C11_NameOnlyShortens ==
  [][\A s \in Sources : \A c \in Keys(normalized[s]) :
       /\ c \in Keys(normalized'[s])
       /\ \/ Get(normalized'[s], c) = Get(normalized[s], c)
          \/ /\ pc = "normalize" /\ s = src /\ idx <= Len(data[s])
             /\ Get(normalized'[s], c).name = data[s][idx].key
             /\ Get(normalized'[s], c).medals = data[s][idx].value
             /\ Len(Get(normalized'[s], c).name) < Len(Get(normalized[s], c).name)]_vars

\* Two records of the source being normalized are processed; the entry was
\* created under the first label, "Macao, China", and now carries the
\* second, shorter one, "China".
C11_Witness ==
  /\ pc = "normalize"
  /\ idx = 3
  /\ data[src][1].key = MacaoChina
  /\ data[src][2].key = China
  /\ Keys(normalized[src]) = {CHN}
  /\ Get(normalized[src], CHN).name = China

====
